---- MODULE Spec2Model ----
(***************************************************************************)
(* Model of unmanic.libs.notifications.Notifications: a queue.Queue        *)
(* subclass that emulates an ordered set of notification dicts keyed by    *)
(* 'uuid'.  The FIFO queue (`queue`) and the set of known uuids            *)
(* (`all_items`) are guarded by one threading.RLock (`_lock`).             *)
(*                                                                         *)
(* Threads call add / remove / read_all_items / update.  Each call is      *)
(* broken into the steps at which another thread could run: the call (with *)
(* the validation it starts with, which touches no shared state), the lock *)
(* acquisition, every get_nowait and put_nowait on the queue, every        *)
(* mutation of all_items, and the release of the lock at return.           *)
(***************************************************************************)
EXTENDS Naturals, Sequences, FiniteSets

\* ---------------------------------------------------------------- bounds
MaxGen     == 1     \* uuid4() values generated in one behaviour
MaxSizeCfg == 1     \* the maxsize given at construction when one is given
MaxCalls   == 4     \* calls made in one behaviour
MaxLiveCalls == 3   \* calls made in one behaviour of the fair specification

\* the threads sharing the singleton, and the uuids callers pass explicitly
Threads == {1, 2}
ExplicitIds == {"A", "B"}

\* str(uuid.uuid4()): the n-th value drawn, distinct from every other uuid
GenName == <<"g1", "g2", "g3", "g4">>

\* item.get('uuid') is falsy: the key is absent, None or the empty string
NoUuid == ""

\* ------------------------------------------------------------ validation
RequiredKeys == <<"type", "icon", "label", "message", "navigation">>
AllKeys == {RequiredKeys[i] : i \in 1..Len(RequiredKeys)}
ValidTypes == {"error", "warning", "success", "info"}

\* item.get('type'): None when the key is absent
GetType(item) == IF "type" \in item.keys THEN item.type ELSE "None"

MissingIdx(item) == {i \in 1..Len(RequiredKeys) : RequiredKeys[i] \notin item.keys}

\* faulty variant: the last missing key is named
FirstMissing_Last(item) ==
    RequiredKeys[CHOOSE i \in MissingIdx(item) : \A j \in MissingIdx(item) : i >= j]

FirstMissing(item) ==
    RequiredKeys[CHOOSE i \in MissingIdx(item) : \A j \in MissingIdx(item) : i <= j]

\* faulty variant: the type is never checked
validate_item_NoTypeCheck(item) ==
    IF MissingIdx(item) # {}
    THEN <<"Exception", "Missing key", FirstMissing(item)>>
    ELSE <<"ok">>

\* __validate_item: <<"ok">> for `return True`, else the exception raised
validate_item(item) ==
    IF MissingIdx(item) # {}
    THEN <<"Exception", "Missing key", FirstMissing(item)>>
    ELSE IF GetType(item) \notin ValidTypes
         THEN <<"Exception", "Received", GetType(item)>>
         ELSE <<"ok">>

\* ----------------------------------------------------------------- state
VARIABLES
    queue,          \* the Queue's deque of items, oldest first
    all_items,      \* self.all_items: set of uuids
    maxsize,        \* self.maxsize, fixed at construction (0: unbounded)
    lockOwner,      \* thread owning self._lock (0: nobody)
    lockCount,      \* recursion level of the RLock
    nextUuid,       \* how many uuid4() values have been drawn
    calls,          \* calls made so far
    budget,         \* calls the callers make in one behaviour
    pc,             \* each thread's position
    item,           \* add/update: the caller's dict `item`
    item_uuid,      \* remove: the argument
    current_items,  \* local list of remove/read_all_items/update
    requeue_items,  \* local list of remove/update
    success,        \* local of remove
    replaced,       \* local of update
    idx,            \* position of the `for item in items` loop of a requeue
    result,         \* what the call returns or raises
    pre             \* history: queue, all_items and the item's uuid when the lock was taken

shared == <<queue, all_items, maxsize, budget, lockOwner, lockCount, nextUuid, calls>>
locals == <<pc, item, item_uuid, current_items, requeue_items, success, replaced,
            idx, result>>
vars == <<shared, locals, pre>>

NoItem   == [uuid |-> NoUuid, type |-> "None", keys |-> {}]
NoResult == [kind |-> "none", val |-> "None"]
NoPre    == [queue |-> <<>>, all_items |-> {}, uuid |-> NoUuid]

Returns(v) == [kind |-> "return", val |-> v]
Raises(v)  == [kind |-> "raise", val |-> v]

\* uuids a caller can name: the explicit ones and those generated so far
\* (the generated uuid is written into the caller's dict and is returned by
\* read_all_items)
NameableIds == ExplicitIds \cup {GenName[i] : i \in 1..nextUuid}

\* the valid dicts callers pass: any nameable uuid or none; add's callers
\* send type 'info' and update's send 'error', so that an item met in the
\* queue may differ from the one passed in everything but its uuid
AddItems ==
    [uuid : NameableIds \cup {NoUuid}, type : {"info"}, keys : {AllKeys}]
UpdateItems ==
    [uuid : NameableIds \cup {NoUuid}, type : {"error"}, keys : {AllKeys}]

\* dicts that fail validation: required keys missing, or a type outside the list
InvalidItems ==
    { [uuid |-> "A", type |-> "info",  keys |-> AllKeys \ {"icon", "message"}],
      [uuid |-> "A", type |-> "bogus", keys |-> AllKeys] }

\* uuid4() calls that threads already past validation will still make
PendingGen ==
    Cardinality({t \in Threads :
        pc[t] \in {"add_lock", "add_uuid", "upd_lock", "upd_uuid"}
        /\ item[t].uuid = NoUuid})

CanCall(t, it) ==
    /\ pc[t] = "idle"
    /\ calls < budget
    /\ (it.uuid = NoUuid /\ validate_item(it) = <<"ok">>)
            => nextUuid + PendingGen < MaxGen

\* the uuids, and the elements, of a list of items
Uuids(items) == {items[i].uuid : i \in 1..Len(items)}
Range(q) == {q[i] : i \in 1..Len(q)}

\* ------------------------------------------------------------- the lock
\* faulty variant: the critical sections are entered without the lock
CanAcquire_NoLock(t) == TRUE

\* `with self._lock:` entry; an RLock may be re-acquired by its owner
CanAcquire(t) == lockOwner \in {0, t}

Acquire(t) ==
    /\ CanAcquire(t)
    /\ lockOwner' = t
    /\ lockCount' = lockCount + 1
    /\ pre' = [queue |-> queue, all_items |-> all_items, uuid |-> item[t].uuid]

\* faulty variant: an exception leaves the with block without releasing
Release_NotOnRaise(t) ==
    IF result[t].kind = "raise"
    THEN /\ UNCHANGED <<lockOwner, lockCount>>
         /\ pre' = NoPre
    ELSE /\ lockCount' = lockCount - 1
         /\ lockOwner' = IF lockCount = 1 THEN 0 ELSE lockOwner
         /\ pre' = NoPre

\* `with self._lock:` exit, on return or on an exception
Release(t) ==
    /\ lockCount' = lockCount - 1
    /\ lockOwner' = IF lockCount = 1 THEN 0 ELSE lockOwner
    /\ pre' = NoPre

\* the thread is back in its caller: every local is gone
Leave(t) ==
    /\ pc' = [pc EXCEPT ![t] = "idle"]
    /\ item' = [item EXCEPT ![t] = NoItem]
    /\ item_uuid' = [item_uuid EXCEPT ![t] = NoUuid]
    /\ current_items' = [current_items EXCEPT ![t] = <<>>]
    /\ requeue_items' = [requeue_items EXCEPT ![t] = <<>>]
    /\ success' = [success EXCEPT ![t] = FALSE]
    /\ replaced' = [replaced EXCEPT ![t] = FALSE]
    /\ idx' = [idx EXCEPT ![t] = 0]
    /\ result' = [result EXCEPT ![t] = NoResult]

\* ------------------------------------------------------------ the queue
\* Queue.put_nowait raises Full when maxsize > 0 and qsize() >= maxsize
IsFull == maxsize > 0 /\ Len(queue) >= maxsize

\* the instance as constructed, no call made yet
Constructed ==
    /\ queue = <<>>
    /\ all_items = {}
    /\ maxsize \in {0, MaxSizeCfg}
    /\ lockOwner = 0
    /\ lockCount = 0
    /\ nextUuid = 0
    /\ calls = 0
    /\ pc = [t \in Threads |-> "idle"]
    /\ item = [t \in Threads |-> NoItem]
    /\ item_uuid = [t \in Threads |-> NoUuid]
    /\ current_items = [t \in Threads |-> <<>>]
    /\ requeue_items = [t \in Threads |-> <<>>]
    /\ success = [t \in Threads |-> FALSE]
    /\ replaced = [t \in Threads |-> FALSE]
    /\ idx = [t \in Threads |-> 0]
    /\ result = [t \in Threads |-> NoResult]
    /\ pre = NoPre

Init == Constructed /\ budget = MaxCalls

\* --------------------------------------------------------------- add
\* faulty variant: the lock is requested before the item is validated
CallWith_LockFirst(t, it, lock, raised) ==
    /\ CanCall(t, it)
    /\ calls' = calls + 1
    /\ item' = [item EXCEPT ![t] = it]
    /\ pc' = [pc EXCEPT ![t] = lock]
    /\ UNCHANGED <<queue, all_items, maxsize, budget, lockOwner, lockCount, nextUuid, result,
                   item_uuid, current_items, requeue_items, success, replaced, idx, pre>>

\* lines 131-133 and 177-179: a call of add or update with the dict `it`; the
\* validation, before the lock, lets it through to `lock` or raises
CallWith(t, it, lock, raised) ==
    /\ CanCall(t, it)
    /\ calls' = calls + 1
    /\ item' = [item EXCEPT ![t] = it]
    /\ IF validate_item(it) = <<"ok">>
       THEN /\ pc' = [pc EXCEPT ![t] = lock]
            /\ UNCHANGED result
       ELSE /\ pc' = [pc EXCEPT ![t] = raised]
            /\ result' = [result EXCEPT ![t] = Raises(validate_item(it))]
    /\ UNCHANGED <<queue, all_items, maxsize, budget, lockOwner, lockCount, nextUuid,
                   item_uuid, current_items, requeue_items, success, replaced, idx, pre>>

\* lines 131-134: the call and its validation, before the lock
add_Call(t) ==
    \E it \in AddItems \cup InvalidItems : CallWith(t, it, "add_lock", "add_raised")

\* the validation error reaches the caller
add_Raised(t) ==
    /\ pc[t] = "add_raised"
    /\ Leave(t)
    /\ UNCHANGED <<shared, pre>>

add_Lock(t) ==
    /\ pc[t] = "add_lock"
    /\ Acquire(t)
    /\ pc' = [pc EXCEPT ![t] = "add_uuid"]
    /\ UNCHANGED <<queue, all_items, maxsize, budget, nextUuid, calls,
                   item, item_uuid, current_items, requeue_items, success, replaced, idx, result>>

\* lines 136-137: item['uuid'] = str(uuid.uuid4()) when none was given
\* faulty variant: the generator hands out one and the same uuid
GenUuid_Same(t) ==
    IF item[t].uuid = NoUuid
    THEN /\ item' = [item EXCEPT ![t].uuid = GenName[1]]
         /\ UNCHANGED nextUuid
    ELSE UNCHANGED <<item, nextUuid>>

GenUuid(t) ==
    IF item[t].uuid = NoUuid
    THEN /\ item' = [item EXCEPT ![t].uuid = GenName[nextUuid + 1]]
         /\ nextUuid' = nextUuid + 1
    ELSE UNCHANGED <<item, nextUuid>>

add_Uuid(t) ==
    /\ pc[t] = "add_uuid"
    /\ GenUuid(t)
    /\ pc' = [pc EXCEPT ![t] = "add_check"]
    /\ UNCHANGED <<queue, all_items, maxsize, budget, lockOwner, lockCount, calls,
                   item_uuid, current_items, requeue_items, success, replaced, idx, result, pre>>

\* faulty variants: no duplicate test; a test on the whole item
AddIsDuplicate_Never(t) == FALSE
AddIsDuplicate_ByItem(t) == item[t] \in Range(queue)
\* faulty variant: a test against the uuids ever seen (a generated uuid that
\* a caller names has been in all_items before)
AddIsDuplicate_EverSeen(t) ==
    \/ item[t].uuid \in all_items
    \/ pre.uuid # NoUuid /\ item[t].uuid \in {GenName[i] : i \in 1..nextUuid}

\* line 139: the duplicate test
AddIsDuplicate(t) == item[t].uuid \in all_items

\* lines 139-140: a known uuid returns at once
add_Check(t) ==
    /\ pc[t] = "add_check"
    /\ IF AddIsDuplicate(t)
       THEN /\ pc' = [pc EXCEPT ![t] = "add_exit"]
            /\ result' = [result EXCEPT ![t] = Returns("None")]
       ELSE /\ pc' = [pc EXCEPT ![t] = "add_mark"]
            /\ UNCHANGED result
    /\ UNCHANGED <<shared, item, item_uuid, current_items, requeue_items, success, replaced, idx, pre>>

\* line 141
add_Mark(t) ==
    /\ pc[t] = "add_mark"
    /\ all_items' = all_items \cup {item[t].uuid}
    /\ pc' = [pc EXCEPT ![t] = "add_put"]
    /\ UNCHANGED <<queue, maxsize, budget, lockOwner, lockCount, nextUuid, calls,
                   item, item_uuid, current_items, requeue_items, success, replaced, idx, result, pre>>

\* line 142 (and 96-98): put_nowait, which raises Full on a full queue
add_Put(t) ==
    /\ pc[t] = "add_put"
    /\ IF IsFull
       THEN /\ result' = [result EXCEPT ![t] = Raises(<<"Full">>)]
            /\ UNCHANGED queue
       ELSE /\ queue' = Append(queue, item[t])
            /\ result' = [result EXCEPT ![t] = Returns("None")]
    /\ pc' = [pc EXCEPT ![t] = "add_exit"]
    /\ UNCHANGED <<all_items, maxsize, budget, lockOwner, lockCount, nextUuid, calls,
                   item, item_uuid, current_items, requeue_items, success, replaced, idx, pre>>

\* the with block is left: the lock is released and the call is over
add_Exit(t) ==
    /\ pc[t] = "add_exit"
    /\ Release(t)
    /\ Leave(t)
    /\ UNCHANGED <<queue, all_items, maxsize, budget, nextUuid, calls>>

\* ------------------------------------------------- drain and requeue
\* lines 116-124, one iteration: get_nowait() appended to the local list, or
\* Empty, which ends the loop
GetAllItemsStep(t, done) ==
    IF queue # <<>>
    THEN /\ current_items' = [current_items EXCEPT ![t] = Append(@, Head(queue))]
         /\ queue' = Tail(queue)
         /\ UNCHANGED pc
    ELSE /\ pc' = [pc EXCEPT ![t] = done]
         /\ UNCHANGED <<queue, current_items>>

\* faulty variant: the items are put back last first
RequeueStep_Rev(t, items, done, exit) ==
    IF idx[t] < Len(items)
    THEN IF IsFull
         THEN /\ result' = [result EXCEPT ![t] = Raises(<<"Full">>)]
              /\ pc' = [pc EXCEPT ![t] = exit]
              /\ UNCHANGED <<queue, idx>>
         ELSE /\ queue' = Append(queue, items[Len(items) - idx[t]])
              /\ idx' = [idx EXCEPT ![t] = @ + 1]
              /\ UNCHANGED <<pc, result>>
    ELSE /\ pc' = [pc EXCEPT ![t] = done]
         /\ UNCHANGED <<queue, idx, result>>

\* lines 126-129, one iteration over `items`: put_nowait, which raises Full
\* on a full queue; after the last one the caller goes on at `done`
RequeueStep(t, items, done, exit) ==
    IF idx[t] < Len(items)
    THEN IF IsFull
         THEN /\ result' = [result EXCEPT ![t] = Raises(<<"Full">>)]
              /\ pc' = [pc EXCEPT ![t] = exit]
              /\ UNCHANGED <<queue, idx>>
         ELSE /\ queue' = Append(queue, items[idx[t] + 1])
              /\ idx' = [idx EXCEPT ![t] = @ + 1]
              /\ UNCHANGED <<pc, result>>
    ELSE /\ pc' = [pc EXCEPT ![t] = done]
         /\ UNCHANGED <<queue, idx, result>>

\* ------------------------------------------------------------ remove
rm_Call(t) ==
    \E u \in NameableIds :
        /\ pc[t] = "idle"
        /\ calls < budget
        /\ calls' = calls + 1
        /\ item_uuid' = [item_uuid EXCEPT ![t] = u]
        /\ pc' = [pc EXCEPT ![t] = "rm_lock"]
        /\ UNCHANGED <<queue, all_items, maxsize, budget, lockOwner, lockCount, nextUuid,
                       item, current_items, requeue_items, success, replaced, idx, result, pre>>

rm_Lock(t) ==
    /\ pc[t] = "rm_lock"
    /\ Acquire(t)
    /\ pc' = [pc EXCEPT ![t] = "rm_drain"]
    /\ UNCHANGED <<queue, all_items, maxsize, budget, nextUuid, calls,
                   item, item_uuid, current_items, requeue_items, success, replaced, idx, result>>

\* line 154
rm_Drain(t) ==
    /\ pc[t] = "rm_drain"
    /\ GetAllItemsStep(t, "rm_scan")
    /\ UNCHANGED <<all_items, maxsize, budget, lockOwner, lockCount, nextUuid, calls,
                   item, item_uuid, requeue_items, success, replaced, idx, result, pre>>

\* faulty variant: success read off all_items instead of the scan
RemoveSuccess_FromSet(cur, u) == u \in all_items

\* lines 156-161: the items kept, and whether one matched
\* faulty variant: the loop stops at the match and the records behind it
\* are lost
RemoveRequeue_UpToMatch(cur, u) ==
    IF \E i \in 1..Len(cur) : cur[i].uuid = u
    THEN SubSeq(cur, 1, (CHOOSE i \in 1..Len(cur) :
                            cur[i].uuid = u /\ \A j \in 1..(i - 1) : cur[j].uuid # u) - 1)
    ELSE cur
RemoveRequeue(cur, u) == SelectSeq(cur, LAMBDA x : x.uuid # u)
RemoveSuccess(cur, u) == \E i \in 1..Len(cur) : cur[i].uuid = u

rm_Scan(t) ==
    /\ pc[t] = "rm_scan"
    /\ requeue_items' = [requeue_items EXCEPT ![t] = RemoveRequeue(current_items[t], item_uuid[t])]
    /\ success' = [success EXCEPT ![t] = RemoveSuccess(current_items[t], item_uuid[t])]
    /\ UNCHANGED replaced
    /\ pc' = [pc EXCEPT ![t] = "rm_discard"]
    /\ UNCHANGED <<shared, item, item_uuid, current_items, idx, result, pre>>

\* faulty variant: the uuid is left in all_items
RemoveDiscard_Forget(t) == all_items

\* lines 162-163
RemoveDiscard(t) ==
    IF success[t] /\ item_uuid[t] \in all_items
    THEN all_items \ {item_uuid[t]}
    ELSE all_items

rm_Discard(t) ==
    /\ pc[t] = "rm_discard"
    /\ all_items' = RemoveDiscard(t)
    /\ pc' = [pc EXCEPT ![t] = "rm_requeue"]
    /\ UNCHANGED <<queue, maxsize, budget, lockOwner, lockCount, nextUuid, calls,
                   item, item_uuid, current_items, requeue_items, success, replaced, idx, result, pre>>

\* line 165
rm_Requeue(t) ==
    /\ pc[t] = "rm_requeue"
    /\ RequeueStep(t, requeue_items[t], "rm_return", "rm_exit")
    /\ UNCHANGED <<all_items, maxsize, budget, lockOwner, lockCount, nextUuid, calls,
                   item, item_uuid, current_items, requeue_items, success, replaced, pre>>

\* line 166: return success
rm_Return(t) ==
    /\ pc[t] = "rm_return"
    /\ result' = [result EXCEPT ![t] = Returns(success[t])]
    /\ pc' = [pc EXCEPT ![t] = "rm_exit"]
    /\ UNCHANGED <<shared, item, item_uuid, current_items, requeue_items, success, replaced, idx, pre>>

rm_Exit(t) ==
    /\ pc[t] = "rm_exit"
    /\ Release(t)
    /\ Leave(t)
    /\ UNCHANGED <<queue, all_items, maxsize, budget, nextUuid, calls>>

\* ---------------------------------------------------- read_all_items
read_Call(t) ==
    /\ pc[t] = "idle"
    /\ calls < budget
    /\ calls' = calls + 1
    /\ pc' = [pc EXCEPT ![t] = "read_lock"]
    /\ UNCHANGED <<queue, all_items, maxsize, budget, lockOwner, lockCount, nextUuid,
                   item, item_uuid, current_items, requeue_items, success, replaced, idx, result, pre>>

read_Lock(t) ==
    /\ pc[t] = "read_lock"
    /\ Acquire(t)
    /\ pc' = [pc EXCEPT ![t] = "read_drain"]
    /\ UNCHANGED <<queue, all_items, maxsize, budget, nextUuid, calls,
                   item, item_uuid, current_items, requeue_items, success, replaced, idx, result>>

\* line 171
read_Drain(t) ==
    /\ pc[t] = "read_drain"
    /\ GetAllItemsStep(t, "read_requeue")
    /\ UNCHANGED <<all_items, maxsize, budget, lockOwner, lockCount, nextUuid, calls,
                   item, item_uuid, requeue_items, success, replaced, idx, result, pre>>

\* line 173
read_Requeue(t) ==
    /\ pc[t] = "read_requeue"
    /\ RequeueStep(t, current_items[t], "read_return", "read_exit")
    /\ UNCHANGED <<all_items, maxsize, budget, lockOwner, lockCount, nextUuid, calls,
                   item, item_uuid, current_items, requeue_items, success, replaced, pre>>

\* line 175: return list(current_items)
read_Return(t) ==
    /\ pc[t] = "read_return"
    /\ result' = [result EXCEPT ![t] = Returns(current_items[t])]
    /\ pc' = [pc EXCEPT ![t] = "read_exit"]
    /\ UNCHANGED <<shared, item, item_uuid, current_items, requeue_items, success, replaced, idx, pre>>

read_Exit(t) ==
    /\ pc[t] = "read_exit"
    /\ Release(t)
    /\ Leave(t)
    /\ UNCHANGED <<queue, all_items, maxsize, budget, nextUuid, calls>>

\* ------------------------------------------------------------ update
\* lines 177-180: the call and its validation, before the lock
upd_Call(t) ==
    \E it \in UpdateItems \cup InvalidItems : CallWith(t, it, "upd_lock", "upd_raised")

upd_Raised(t) ==
    /\ pc[t] = "upd_raised"
    /\ Leave(t)
    /\ UNCHANGED <<shared, pre>>

upd_Lock(t) ==
    /\ pc[t] = "upd_lock"
    /\ Acquire(t)
    /\ pc' = [pc EXCEPT ![t] = "upd_uuid"]
    /\ UNCHANGED <<queue, all_items, maxsize, budget, nextUuid, calls,
                   item, item_uuid, current_items, requeue_items, success, replaced, idx, result>>

\* lines 182-183
upd_Uuid(t) ==
    /\ pc[t] = "upd_uuid"
    /\ GenUuid(t)
    /\ pc' = [pc EXCEPT ![t] = "upd_drain"]
    /\ UNCHANGED <<queue, all_items, maxsize, budget, lockOwner, lockCount, calls,
                   item_uuid, current_items, requeue_items, success, replaced, idx, result, pre>>

\* line 184
upd_Drain(t) ==
    /\ pc[t] = "upd_drain"
    /\ GetAllItemsStep(t, "upd_scan")
    /\ UNCHANGED <<all_items, maxsize, budget, lockOwner, lockCount, nextUuid, calls,
                   item, item_uuid, requeue_items, success, replaced, idx, result, pre>>

\* faulty variants: the matched record is dropped and the item put last; the
\* matched record is kept as it is
UpdateRequeue_ToEnd(cur, it) ==
    IF \E i \in 1..Len(cur) : cur[i].uuid = it.uuid
    THEN Append(SelectSeq(cur, LAMBDA x : x.uuid # it.uuid), it)
    ELSE cur
UpdateRequeue_Keep(cur, it) == cur

\* lines 185-192: every item of the same uuid gives way to `item`
UpdateRequeue(cur, it) ==
    [i \in 1..Len(cur) |-> IF cur[i].uuid = it.uuid THEN it ELSE cur[i]]
UpdateReplaced(cur, it) == \E i \in 1..Len(cur) : cur[i].uuid = it.uuid

\* lines 185-193: the scan, then the branch on `replaced`
upd_Scan(t) ==
    /\ pc[t] = "upd_scan"
    /\ requeue_items' = [requeue_items EXCEPT ![t] = UpdateRequeue(current_items[t], item[t])]
    /\ replaced' = [replaced EXCEPT ![t] = UpdateReplaced(current_items[t], item[t])]
    /\ UNCHANGED success
    /\ pc' = [pc EXCEPT ![t] =
                IF UpdateReplaced(current_items[t], item[t]) THEN "upd_mark" ELSE "upd_marknew"]
    /\ UNCHANGED <<shared, item, item_uuid, current_items, idx, result, pre>>

\* faulty variant: the branch enters `with self._lock` again, as a call of
\* add from inside update would
upd_MarkNew_Nested(t) ==
    /\ pc[t] = "upd_marknew"
    /\ CanAcquire(t)
    /\ lockCount' = lockCount + 1
    /\ all_items' = all_items \cup {item[t].uuid}
    /\ pc' = [pc EXCEPT ![t] = "upd_restore"]
    /\ UNCHANGED <<queue, maxsize, budget, lockOwner, nextUuid, calls,
                   item, item_uuid, current_items, requeue_items, success, replaced, idx, result, pre>>

\* line 194
upd_MarkNew(t) ==
    /\ pc[t] = "upd_marknew"
    /\ all_items' = all_items \cup {item[t].uuid}
    /\ pc' = [pc EXCEPT ![t] = "upd_restore"]
    /\ UNCHANGED <<queue, maxsize, budget, lockOwner, lockCount, nextUuid, calls,
                   item, item_uuid, current_items, requeue_items, success, replaced, idx, result, pre>>

\* line 196
upd_Restore(t) ==
    /\ pc[t] = "upd_restore"
    /\ RequeueStep(t, current_items[t], "upd_put", "upd_exit")
    /\ UNCHANGED <<all_items, maxsize, budget, lockOwner, lockCount, nextUuid, calls,
                   item, item_uuid, current_items, requeue_items, success, replaced, pre>>

\* faulty variant: the new item goes to the head of the queue
upd_Put_Front(t) ==
    /\ pc[t] = "upd_put"
    /\ IF IsFull
       THEN /\ result' = [result EXCEPT ![t] = Raises(<<"Full">>)]
            /\ UNCHANGED queue
       ELSE /\ queue' = <<item[t]>> \o queue
            /\ result' = [result EXCEPT ![t] = Returns("None")]
    /\ pc' = [pc EXCEPT ![t] = "upd_exit"]
    /\ UNCHANGED <<all_items, maxsize, budget, lockOwner, lockCount, nextUuid, calls,
                   item, item_uuid, current_items, requeue_items, success, replaced, idx, pre>>

\* lines 197-198: put_nowait of the new item, then return
upd_Put(t) ==
    /\ pc[t] = "upd_put"
    /\ IF IsFull
       THEN /\ result' = [result EXCEPT ![t] = Raises(<<"Full">>)]
            /\ UNCHANGED queue
       ELSE /\ queue' = Append(queue, item[t])
            /\ result' = [result EXCEPT ![t] = Returns("None")]
    /\ pc' = [pc EXCEPT ![t] = "upd_exit"]
    /\ UNCHANGED <<all_items, maxsize, budget, lockOwner, lockCount, nextUuid, calls,
                   item, item_uuid, current_items, requeue_items, success, replaced, idx, pre>>

\* line 199
upd_Mark(t) ==
    /\ pc[t] = "upd_mark"
    /\ all_items' = all_items \cup {item[t].uuid}
    /\ pc' = [pc EXCEPT ![t] = "upd_requeue"]
    /\ UNCHANGED <<queue, maxsize, budget, lockOwner, lockCount, nextUuid, calls,
                   item, item_uuid, current_items, requeue_items, success, replaced, idx, result, pre>>

\* line 201
upd_Requeue(t) ==
    /\ pc[t] = "upd_requeue"
    /\ RequeueStep(t, requeue_items[t], "upd_return", "upd_exit")
    /\ UNCHANGED <<all_items, maxsize, budget, lockOwner, lockCount, nextUuid, calls,
                   item, item_uuid, current_items, requeue_items, success, replaced, pre>>

\* the end of the function body: return None
upd_Return(t) ==
    /\ pc[t] = "upd_return"
    /\ result' = [result EXCEPT ![t] = Returns("None")]
    /\ pc' = [pc EXCEPT ![t] = "upd_exit"]
    /\ UNCHANGED <<shared, item, item_uuid, current_items, requeue_items, success, replaced, idx, pre>>

upd_Exit(t) ==
    /\ pc[t] = "upd_exit"
    /\ Release(t)
    /\ Leave(t)
    /\ UNCHANGED <<queue, all_items, maxsize, budget, nextUuid, calls>>

\* ------------------------------------------------------ specification
Next ==
    \E t \in Threads :
        \/ add_Call(t) \/ add_Raised(t) \/ add_Lock(t) \/ add_Uuid(t)
        \/ add_Check(t) \/ add_Mark(t) \/ add_Put(t) \/ add_Exit(t)
        \/ rm_Call(t) \/ rm_Lock(t) \/ rm_Drain(t) \/ rm_Scan(t)
        \/ rm_Discard(t) \/ rm_Requeue(t) \/ rm_Return(t) \/ rm_Exit(t)
        \/ read_Call(t) \/ read_Lock(t) \/ read_Drain(t) \/ read_Requeue(t)
        \/ read_Return(t) \/ read_Exit(t)
        \/ upd_Call(t) \/ upd_Raised(t) \/ upd_Lock(t) \/ upd_Uuid(t)
        \/ upd_Drain(t) \/ upd_Scan(t) \/ upd_MarkNew(t) \/ upd_Restore(t)
        \/ upd_Put(t) \/ upd_Mark(t) \/ upd_Requeue(t) \/ upd_Return(t)
        \/ upd_Exit(t)

Spec == Init /\ [][Next]_vars

\* ------------------------------------------------------------- typing
TypeOK ==
    /\ lockOwner \in Threads \cup {0}
    /\ all_items \subseteq ExplicitIds \cup {GenName[i] : i \in 1..MaxGen}
    /\ nextUuid <= MaxGen
    /\ calls <= MaxCalls

\* ----------------------------------------------------------- vocabulary
\* thread t is inside a `with self._lock:` block
InCritical(t) == pc[t] \notin {"idle", "add_lock", "rm_lock", "read_lock", "upd_lock",
                               "add_raised", "upd_raised"}

\* uuid u is held in sequence q
Present(u, q) == \E i \in 1..Len(q) : q[i].uuid = u

\* position of the first record of uuid u in q
Pos(u, q) == CHOOSE i \in 1..Len(q) : q[i].uuid = u /\ \A j \in 1..(i - 1) : q[j].uuid # u

\* q without its k-th element
Without(q, k) == SubSeq(q, 1, k - 1) \o SubSeq(q, k + 1, Len(q))

\* a dict that meets the schema: every required key, and a listed type
WellFormed(it) == AllKeys \subseteq it.keys /\ it.type \in ValidTypes

\* =================================================================== C1
\* C1: whenever no call is inside its critical section (every add, remove,
\* update and read_all_items made so far has completed, however it ended),
\* all_items is exactly the set of uuids of the records in the queue.
C1_KnownMirrorsOrder ==
    lockOwner = 0 => all_items = Uuids(queue)

\* the same, for an instance constructed without a maxsize
C1_KnownMirrorsOrderUnbounded ==
    (maxsize = 0 /\ lockOwner = 0) => all_items = Uuids(queue)

\* what does hold with a maxsize too: every record's uuid is in all_items
C1_OrderWithinKnown ==
    lockOwner = 0 => Uuids(queue) \subseteq all_items

\* =================================================================== C2
\* C2: in every reachable state no two records in the queue have the same
\* uuid.
C2_UniqueIds ==
    \A i, j \in 1..Len(queue) : queue[i].uuid = queue[j].uuid => i = j

\* an add of a uuid that is held has gone through, and the queue holds two
\* records
C2_Witness ==
    \E t \in Threads :
        /\ pc[t] = "add_exit"
        /\ Present(item[t].uuid, pre.queue)
        /\ Len(queue) >= 2

\* =================================================================== C3
\* C3: calls exclude each other: a thread inside a critical section owns the
\* lock, once, so no two are inside at a time; and what a remove, a
\* read_all_items or an update drains is exactly the queue as it was when
\* the lock was taken, so the call never sees another call's half-done
\* rebuild (an empty or half-refilled queue) and nothing changes the queue
\* under it.
Draining(t) == pc[t] \in {"rm_drain", "read_drain", "upd_drain"}
Drained(t)  == pc[t] \in {"rm_scan", "rm_discard", "rm_requeue", "rm_return",
                          "read_requeue", "read_return",
                          "upd_scan", "upd_mark", "upd_marknew", "upd_restore",
                          "upd_put", "upd_requeue", "upd_return"}

C3_Atomic ==
    \A t \in Threads :
        /\ InCritical(t) => (lockOwner = t /\ lockCount = 1)
        /\ Draining(t) => current_items[t] \o queue = pre.queue
        /\ Drained(t) => current_items[t] = pre.queue
        /\ pc[t] \in {"add_uuid", "add_check", "add_mark", "add_put"} => queue = pre.queue

\* a thread is halfway through a rebuild (the queue drained in part) while
\* another has called and waits for the lock
C3_Witness ==
    \E t, u \in Threads :
        /\ t # u
        /\ Draining(t) /\ current_items[t] # <<>> /\ queue # <<>>
        /\ pc[u] \in {"add_lock", "rm_lock", "read_lock", "upd_lock"}

\* a call of thread t has done all it does to the store and is about to
\* release the lock; pre is the store as the call found it
AtExit(t) == pc[t] \in {"add_exit", "rm_exit", "read_exit", "upd_exit"}

\* the queue had room for one more record when the lock was taken
HadRoom == maxsize = 0 \/ Len(pre.queue) < maxsize

\* =================================================================== C4
\* C4: a call never reorders: of two records in the queue when a call ends,
\* if the later one was already held when the call began then so was the
\* earlier one, and it was ahead then too.  So records that stay keep
\* their relative order, a record that enters (an add, or an update of an
\* absent uuid) goes behind every record that stays, and an add or update of
\* a uuid already held moves nothing; by induction over the calls the read
\* order is the order of first insertion since the last removal.
C4_FirstInsertionOrder ==
    \A t \in Threads : AtExit(t) =>
        \A i, j \in 1..Len(queue) :
            (i < j /\ Present(queue[j].uuid, pre.queue)) =>
                /\ Present(queue[i].uuid, pre.queue)
                /\ Pos(queue[i].uuid, pre.queue) < Pos(queue[j].uuid, pre.queue)

\* an update has replaced a record that is not the last one
C4_Witness ==
    \E t \in Threads :
        /\ pc[t] = "upd_exit"
        /\ Present(item[t].uuid, pre.queue)
        /\ Pos(item[t].uuid, pre.queue) < Len(pre.queue)
        /\ item[t] \in Range(queue)

C6_ReplacedInPlace(t) ==
    /\ Len(queue) = Len(pre.queue)
    /\ \A i \in 1..Len(queue) :
          queue[i] = IF pre.queue[i].uuid = item[t].uuid THEN item[t] ELSE pre.queue[i]
    /\ all_items = pre.all_items

\* update of a uuid that is not held: the item goes to the end
C6_Appended(t) ==
    /\ queue = Append(pre.queue, item[t])
    /\ all_items = pre.all_items \cup {item[t].uuid}

\* C6 as claimed: update replaces in place when the uuid is held, and
\* appends when it is not.
C6_Upsert ==
    \A t \in Threads : pc[t] = "upd_exit" =>
        IF Present(item[t].uuid, pre.queue)
        THEN C6_ReplacedInPlace(t)
        ELSE C6_Appended(t)

\* C6 as amended: update replaces in place when the uuid is held; when it
\* is not, and the queue is below its maxsize (or has none), it appends.
C6_UpsertWithRoom ==
    \A t \in Threads : pc[t] = "upd_exit" =>
        IF Present(item[t].uuid, pre.queue)
        THEN C6_ReplacedInPlace(t)
        ELSE HadRoom => C6_Appended(t)

\* an update has replaced the payload of a record among others, and (in
\* another state) an update has appended to a queue that held a record
C6_WitnessReplace ==
    \E t \in Threads :
        /\ pc[t] = "upd_exit"
        /\ Present(item[t].uuid, pre.queue)
        /\ pre.queue[Pos(item[t].uuid, pre.queue)] # item[t]
        /\ Len(queue) >= 2

C6_WitnessAppend ==
    \E t \in Threads :
        /\ pc[t] = "upd_exit"
        /\ ~Present(item[t].uuid, pre.queue)
        /\ pre.queue # <<>>
        /\ queue = Append(pre.queue, item[t])

\* =================================================================== C7
\* C7: a remove of a uuid that is held leaves the queue as it was with
\* exactly that record taken out, the others in their order, and takes the
\* uuid out of all_items.
C7_RemoveDeletesOne ==
    \A t \in Threads :
        (pc[t] = "rm_exit" /\ Present(item_uuid[t], pre.queue)) =>
            /\ queue = Without(pre.queue, Pos(item_uuid[t], pre.queue))
            /\ all_items = pre.all_items \ {item_uuid[t]}

\* the middle one of three records has been removed
C7_Witness ==
    \E t \in Threads :
        /\ pc[t] = "rm_exit"
        /\ Len(pre.queue) = 3
        /\ pre.queue[2].uuid = item_uuid[t]
        /\ queue = <<pre.queue[1], pre.queue[3]>>

\* =================================================================== C8
\* C8: remove returns True exactly when a record of that uuid was held when
\* it began; when none was, it returns False and the queue and all_items
\* are as they were.
C8_RemoveReturnsFound ==
    \A t \in Threads : pc[t] = "rm_exit" =>
        /\ result[t] = Returns(Present(item_uuid[t], pre.queue))
        /\ ~Present(item_uuid[t], pre.queue) =>
              (queue = pre.queue /\ all_items = pre.all_items)

\* a remove of a uuid that is not held has returned False on a queue that
\* holds a record
C8_Witness ==
    \E t \in Threads :
        /\ pc[t] = "rm_exit"
        /\ ~Present(item_uuid[t], pre.queue)
        /\ pre.queue # <<>>
        /\ result[t] = Returns(FALSE)

\* =================================================================== C9
\* C9: read_all_items returns the queue's contents in order and leaves the
\* queue and all_items as they were; so two reads with no mutation between
\* them return the same list.
C9_ReadIsPeek ==
    \A t \in Threads : pc[t] = "read_exit" =>
        /\ result[t] = Returns(pre.queue)
        /\ queue = pre.queue
        /\ all_items = pre.all_items

\* a read of two records or more is over while another thread's add, remove
\* or update waits for the lock
C9_Witness ==
    \E t, u \in Threads :
        /\ pc[t] = "read_exit"
        /\ Len(pre.queue) >= 2
        /\ result[t] = Returns(queue)
        /\ pc[u] \in {"add_lock", "rm_lock", "upd_lock"}

\* ================================================================== C10
\* C10: a call of add or update with an item that is not well formed (a
\* required key missing, or a type outside the list) raises, and neither
\* the call nor the raise changes the queue or all_items; a well-formed
\* item goes on to the lock.
C10_InvalidLeavesStore ==
    [][\A t \in Threads :
          /\ (pc[t] = "idle" /\ pc'[t] \in {"add_lock", "add_raised", "upd_lock", "upd_raised"}) =>
                IF WellFormed(item'[t])
                THEN pc'[t] \in {"add_lock", "upd_lock"}
                ELSE /\ pc'[t] \in {"add_raised", "upd_raised"}
                     /\ result'[t].kind = "raise"
                     /\ queue' = queue
                     /\ all_items' = all_items
          /\ (pc[t] \in {"add_raised", "upd_raised"} /\ pc'[t] # pc[t]) =>
                (pc'[t] = "idle" /\ queue' = queue /\ all_items' = all_items)
      ]_vars

\* an update with a malformed item has raised on a store that holds a record
C10_Witness ==
    \E t \in Threads :
        /\ pc[t] = "upd_raised"
        /\ ~WellFormed(item[t])
        /\ result[t].kind = "raise"
        /\ queue # <<>>

\* ================================================================== C11
\* every step of thread t but the calls themselves: what the thread does
\* once it is inside add, remove, read_all_items or update
Step(t) ==
    \/ add_Raised(t) \/ add_Lock(t) \/ add_Uuid(t) \/ add_Check(t)
    \/ add_Mark(t) \/ add_Put(t) \/ add_Exit(t)
    \/ rm_Lock(t) \/ rm_Drain(t) \/ rm_Scan(t) \/ rm_Discard(t)
    \/ rm_Requeue(t) \/ rm_Return(t) \/ rm_Exit(t)
    \/ read_Lock(t) \/ read_Drain(t) \/ read_Requeue(t) \/ read_Return(t)
    \/ read_Exit(t)
    \/ upd_Raised(t) \/ upd_Lock(t) \/ upd_Uuid(t) \/ upd_Drain(t)
    \/ upd_Scan(t) \/ upd_MarkNew(t) \/ upd_Restore(t) \/ upd_Put(t)
    \/ upd_Mark(t) \/ upd_Requeue(t) \/ upd_Return(t) \/ upd_Exit(t)

\* the scheduler runs every thread that can run: a thread whose next step
\* stays possible takes it in the end
\* (in behaviours of at most MaxLiveCalls calls)
FairInit == Constructed /\ budget = MaxLiveCalls
FairSpec == FairInit /\ [][Next]_vars /\ \A t \in Threads : WF_vars(Step(t))

\* C11: the lock is held only by a thread inside a critical section, so
\* every way out of one (return, the early returns, an exception) has
\* released it; and under fair scheduling every call that was made comes
\* back to its caller.
C11_EveryCallCompletes ==
    /\ [](lockOwner # 0 => InCritical(lockOwner))
    /\ \A t \in Threads : (pc[t] # "idle") ~> (pc[t] = "idle")

\* an add is leaving its critical section on an exception (Full) while
\* another thread waits for the lock
C11_Witness ==
    \E t, u \in Threads :
        /\ pc[t] \in {"add_exit", "upd_exit"}
        /\ result[t].kind = "raise"
        /\ pc[u] \in {"add_lock", "rm_lock", "read_lock", "upd_lock"}

\* ================================================================== C12
\* validation on its own: one call of add or update, with a dict drawn from
\* every set of required keys and from listed and unlisted types
ProbeTypes == ValidTypes \cup {"bogus", "status", "None"}
ProbeItems == [uuid : {NoUuid}, type : ProbeTypes, keys : SUBSET AllKeys]

val_Add(t) == \E it \in ProbeItems : CallWith(t, it, "add_lock", "add_raised")
val_Update(t) == \E it \in ProbeItems : CallWith(t, it, "upd_lock", "upd_raised")

ValidateInit == Constructed /\ budget = 1
ValidateNext == \E t \in Threads : val_Add(t) \/ val_Update(t)
ValidateSpec == ValidateInit /\ [][ValidateNext]_vars

\* key k is the first of type, icon, label, message, navigation that the
\* dict lacks
IsFirstMissing(k, it) ==
    \E i \in 1..5 :
        /\ k = <<"type", "icon", "label", "message", "navigation">>[i]
        /\ k \notin it.keys
        /\ \A j \in 1..(i - 1) :
              <<"type", "icon", "label", "message", "navigation">>[j] \in it.keys

C12_WitnessType ==
    \E t \in Threads :
        /\ pc[t] = "add_raised"
        /\ item[t].keys = AllKeys
        /\ result[t] = Raises(<<"Exception", "Received", "bogus">>)

\* ================================================================== C13
\* the call of the lock holder was made without a uuid (item.get('uuid')
\* was falsy at the lock entry), so that line 136 or 182 generated one
WasGenerated(t) == lockOwner = t /\ pre.uuid = NoUuid

\* the generated uuid is not empty and is neither held nor known
C13_FreshId(t) ==
    /\ item[t].uuid # NoUuid
    /\ item[t].uuid \notin Uuids(pre.queue)
    /\ item[t].uuid \notin pre.all_items

\* the item, with its uuid, has gone to the end and nothing else changed
C13_Inserted(t) ==
    /\ queue = Append(pre.queue, item[t])
    /\ Len(queue) = Len(pre.queue) + 1
    /\ all_items = pre.all_items \cup {item[t].uuid}
    /\ result[t] = Returns("None")

\* C13 as claimed: an add without a uuid always inserts: its item gets a
\* fresh uuid, goes to the end, and the queue grows by one.
C13_AddWithoutIdInserts ==
    \A t \in Threads : (pc[t] = "add_exit" /\ WasGenerated(t)) =>
        C13_FreshId(t) /\ C13_Inserted(t)

\* C13 as amended: an add without a uuid gets a fresh uuid; when the queue
\* is below its maxsize (or has none) the item goes to the end and the
\* queue grows by one.
C13_AddWithoutIdInsertsWithRoom ==
    \A t \in Threads : (pc[t] = "add_exit" /\ WasGenerated(t)) =>
        /\ C13_FreshId(t)
        /\ HadRoom => C13_Inserted(t)

\* an add without a uuid has put its item behind a record
C13_Witness ==
    \E t \in Threads :
        /\ pc[t] = "add_exit"
        /\ WasGenerated(t)
        /\ pre.queue # <<>>
        /\ queue = Append(pre.queue, item[t])

\* ================================================================== C14
\* the call of t has failed on a queue at its maxsize
Overflowed(t) == pc[t] \in {"add_exit", "upd_exit"} /\ result[t] = Raises(<<"Full">>)

\* a failed add or update leaves the queue as it was, and all_items equal
\* to the uuids held if it was so before
C14_OverflowKeepsStore ==
    \A t \in Threads : Overflowed(t) =>
        /\ queue = pre.queue
        /\ pre.all_items = Uuids(pre.queue) => all_items = Uuids(queue)

\* an add of a uuid that is not held, into a queue with room, is not
\* dropped
C14_LaterAddNotDropped ==
    \A t \in Threads :
        (pc[t] = "add_exit" /\ ~Present(item[t].uuid, pre.queue) /\ HadRoom) =>
            Present(item[t].uuid, queue)

\* C14: an add or update that exceeds a configured maxsize fails without
\* touching the store: the queue is unchanged, all_items still equals the
\* uuids held, and a later add of the same uuid, once there is room, is
\* not dropped as a duplicate.
C14_OverflowIsHarmless == C14_OverflowKeepsStore /\ C14_LaterAddNotDropped

\* ================================================================== C15
\* C15: a call of add or update whose item fails validation never waits
\* for the lock and never owns it: it is at its raise, which it can take
\* whoever holds the lock.
C15_InvalidNeverLocks ==
    \A t \in Threads :
        (pc[t] # "idle" /\ item[t] # NoItem /\ ~WellFormed(item[t])) =>
            /\ pc[t] \in {"add_raised", "upd_raised"}
            /\ lockOwner # t
            /\ ENABLED (add_Raised(t) \/ upd_Raised(t))

\* an add is failing on its item while the other thread is inside its
\* critical section
C15_Witness ==
    \E t, u \in Threads :
        /\ pc[t] = "add_raised"
        /\ ~WellFormed(item[t])
        /\ lockOwner = u
        /\ u # t
        /\ InCritical(u)

\* ================================================================== C16
\* a thread is at a `with self._lock:` entry
AtLockEntry(t) == pc[t] \in {"add_lock", "rm_lock", "read_lock", "upd_lock"}

\* C16: the lock is never acquired by the thread that holds it: its hold
\* count is 0 or 1, it is 1 exactly when the lock has an owner, no thread
\* at a lock entry is the owner, and so the entry is open to a thread
\* exactly when the lock is free, as with a plain mutex.
C16_NoNestedAcquire ==
    /\ lockCount \in {0, 1}
    /\ lockCount = 1 <=> lockOwner # 0
    /\ \A t \in Threads : AtLockEntry(t) =>
          /\ lockOwner # t
          /\ CanAcquire(t) <=> lockOwner = 0

\* a thread has come to the append of update while another waits at the
\* lock entry of a read
C16_Witness ==
    \E t, u \in Threads :
        /\ pc[t] = "upd_put"
        /\ lockOwner = t
        /\ lockCount = 1
        /\ pc[u] = "read_lock"

\* ================================================================== C17
\* the records held at the lock entry are all still there, where they were
\* and as they were
C17_NothingReplacedOrMoved ==
    /\ Len(queue) >= Len(pre.queue)
    /\ SubSeq(queue, 1, Len(pre.queue)) = pre.queue

\* the item, under its generated uuid, is the one record more, at the end
C17_AppendedAtEnd(t) ==
    /\ Len(queue) = Len(pre.queue) + 1
    /\ queue[Len(queue)] = item[t]
    /\ all_items = pre.all_items \cup {item[t].uuid}
    /\ result[t] = Returns("None")

\* C17 as claimed: an update without a uuid always degrades to an append:
\* a uuid is generated that matches no record, no record is replaced or
\* moved, the item goes to the end, and the queue grows by one.
C17_UpdateWithoutIdAppends ==
    \A t \in Threads : (pc[t] = "upd_exit" /\ WasGenerated(t)) =>
        /\ item[t].uuid # NoUuid
        /\ ~Present(item[t].uuid, pre.queue)
        /\ ~replaced[t]
        /\ C17_NothingReplacedOrMoved
        /\ C17_AppendedAtEnd(t)

\* C17 as amended: an update without a uuid never replaces or moves a
\* record; when the queue is below its maxsize (or has none) it appends
\* the item and the queue grows by one.
C17_UpdateWithoutIdAppendsWithRoom ==
    \A t \in Threads : (pc[t] = "upd_exit" /\ WasGenerated(t)) =>
        /\ item[t].uuid # NoUuid
        /\ ~Present(item[t].uuid, pre.queue)
        /\ ~replaced[t]
        /\ C17_NothingReplacedOrMoved
        /\ HadRoom => C17_AppendedAtEnd(t)

\* an update without a uuid has put its item behind the records held
C17_Witness ==
    \E t \in Threads :
        /\ pc[t] = "upd_exit"
        /\ WasGenerated(t)
        /\ pre.queue # <<>>
        /\ Len(queue) = Len(pre.queue) + 1
        /\ queue[Len(queue)].uuid \notin Uuids(pre.queue)

C18_WitnessUpdate ==
    \E t \in Threads :
        /\ pc[t] = "upd_exit"
        /\ pre.uuid \in {GenName[i] : i \in 1..nextUuid}
        /\ pre.uuid \notin pre.all_items
        /\ pre.queue # <<>>
        /\ queue = Append(pre.queue, item[t])

\* ================================================================== C19
\* the records of q whose uuid is not x, in their order
Others(q, x) == SelectSeq(q, LAMBDA r : r.uuid # x)

\* the uuid that the call of t is about
Target(t) == IF pc[t] = "rm_exit" THEN item_uuid[t] ELSE item[t].uuid

\* C19: when an add, a remove or an update of uuid x ends, successfully or
\* not, the records of every other uuid are the ones held when it began,
\* each with its payload and in the same relative order, and all_items
\* holds the same uuids other than x.
C19_OthersUntouched ==
    \A t \in Threads : pc[t] \in {"add_exit", "rm_exit", "upd_exit"} =>
        /\ Others(queue, Target(t)) = Others(pre.queue, Target(t))
        /\ all_items \ {Target(t)} = pre.all_items \ {Target(t)}

\* a remove has taken out the head of a queue of at least two records, of
\* which all_items held another
C19_Witness ==
    \E t \in Threads :
        /\ pc[t] = "rm_exit"
        /\ Len(pre.queue) >= 2
        /\ pre.queue[1].uuid = item_uuid[t]
        /\ queue # pre.queue
        /\ all_items # {}

\* an update has changed the payload of a record that others surround
C19_WitnessUpdate ==
    \E t \in Threads :
        /\ pc[t] = "upd_exit"
        /\ Len(pre.queue) = 3
        /\ pre.queue[2].uuid = item[t].uuid
        /\ queue # pre.queue

====
